---- MODULE Spec2Model ----
(***************************************************************************)
(* A model of src/Screener.py: the EMA / RSI indicator functions, the      *)
(* candle and symbol sources as seen by the handler, and the handler's     *)
(* validation, scan loop and result.                                       *)
(*                                                                         *)
(* Python floats are IEEE-754 binary64 values.  They are modelled exactly  *)
(* (53-bit significand, round-to-nearest-even) on natural numbers kept as  *)
(* little-endian sequences of 15-bit limbs, because a significand does not *)
(* fit in a 32-bit machine integer.  Only finite values in the normal      *)
(* range occur for the inputs enumerated below; Python's ints 0, 1, 2, 100 *)
(* and the periods are promoted exactly when mixed with floats.            *)
(***************************************************************************)
EXTENDS Integers, Sequences, FiniteSets, TLC

(***************************************************************************)
(* Natural numbers of unbounded size                                       *)
(***************************************************************************)
Base == 2 ^ 15

Limb(a, i) == IF i <= Len(a) THEN a[i] ELSE 0

RECURSIVE BigNorm(_)
BigNorm(a) ==
  IF a = <<>> THEN a
  ELSE IF a[Len(a)] = 0 THEN BigNorm(SubSeq(a, 1, Len(a) - 1)) ELSE a

RECURSIVE BigFromInt(_)
BigFromInt(n) == IF n = 0 THEN <<>> ELSE <<n % Base>> \o BigFromInt(n \div Base)

RECURSIVE BigAddC(_, _, _, _)
BigAddC(a, b, i, c) ==
  IF i > Len(a) /\ i > Len(b)
  THEN (IF c = 0 THEN <<>> ELSE <<c>>)
  ELSE LET s == Limb(a, i) + Limb(b, i) + c
       IN  <<s % Base>> \o BigAddC(a, b, i + 1, s \div Base)

BigAdd(a, b) == BigAddC(a, b, 1, 0)

RECURSIVE BigSubB(_, _, _, _)
BigSubB(a, b, i, br) ==
  IF i > Len(a) THEN <<>>
  ELSE LET d == a[i] - Limb(b, i) - br
       IN  IF d < 0 THEN <<d + Base>> \o BigSubB(a, b, i + 1, 1)
                    ELSE <<d>> \o BigSubB(a, b, i + 1, 0)

\* a - b for a >= b
BigSub(a, b) == BigNorm(BigSubB(a, b, 1, 0))

RECURSIVE BigCmpAt(_, _, _)
BigCmpAt(a, b, i) ==
  IF i = 0 THEN 0
  ELSE IF a[i] > b[i] THEN 1
  ELSE IF a[i] < b[i] THEN -1
  ELSE BigCmpAt(a, b, i - 1)

\* -1, 0, 1 as a < b, a = b, a > b
BigCmp(a, b) ==
  IF Len(a) > Len(b) THEN 1
  ELSE IF Len(a) < Len(b) THEN -1
  ELSE BigCmpAt(a, b, Len(a))

RECURSIVE BigMulSmallC(_, _, _, _)
BigMulSmallC(a, n, i, c) ==
  IF i > Len(a) THEN (IF c = 0 THEN <<>> ELSE <<c>>)
  ELSE LET p == a[i] * n + c
       IN  <<p % Base>> \o BigMulSmallC(a, n, i + 1, p \div Base)

\* a * n for 0 <= n <= Base
BigMulSmall(a, n) == IF n = 0 THEN <<>> ELSE BigMulSmallC(a, n, 1, 0)

\* [x] * k
RECURSIVE Repeat(_, _)
Repeat(x, k) == IF k = 0 THEN <<>> ELSE <<x>> \o Repeat(x, k - 1)

BigShiftLimbs(a, k) == IF a = <<>> THEN a ELSE Repeat(0, k) \o a

RECURSIVE BigMulAcc(_, _, _)
BigMulAcc(a, b, i) ==
  IF i > Len(b) THEN <<>>
  ELSE BigAdd(BigShiftLimbs(BigMulSmall(a, b[i]), i - 1), BigMulAcc(a, b, i + 1))

BigMul(a, b) == BigMulAcc(a, b, 1)

RECURSIVE BigDivSmallR(_, _, _, _)
BigDivSmallR(a, n, i, r) ==
  IF i = 0 THEN [q |-> <<>>, r |-> r]
  ELSE LET cur  == r * Base + a[i]
           rest == BigDivSmallR(a, n, i - 1, cur % n)
       IN  [q |-> rest.q \o <<cur \div n>>, r |-> rest.r]

NormQuotient(d) == [q |-> BigNorm(d.q), r |-> d.r]

\* quotient and remainder of a by n, 1 <= n <= Base
BigDivSmall(a, n) == NormQuotient(BigDivSmallR(a, n, Len(a), 0))

RECURSIVE BitLenSmall(_)
BitLenSmall(n) == IF n = 0 THEN 0 ELSE 1 + BitLenSmall(n \div 2)

LimbBits == BitLenSmall(Base) - 1

BigBitLen(a) ==
  IF a = <<>> THEN 0 ELSE LimbBits * (Len(a) - 1) + BitLenSmall(a[Len(a)])

\* a * 2^k
BigShl(a, k) == BigShiftLimbs(BigMulSmall(a, 2 ^ (k % LimbBits)), k \div LimbBits)

\* floor(a / 2^k)
BigShr(a, k) ==
  IF k \div LimbBits >= Len(a) THEN <<>>
  ELSE BigDivSmall(SubSeq(a, k \div LimbBits + 1, Len(a)), 2 ^ (k % LimbBits)).q

BigOdd(a) == a # <<>> /\ a[1] % 2 = 1

\* the int value of a, for a < 2^30
BigToInt(a) == Limb(a, 1) + Limb(a, 2) * Base

\* q or q + 1: q is floor(a / 2^s), c compares the remainder with 2^(s-1),
\* and sticky says that the value rounded lies strictly above a / 2^s
BigTie(q, c, sticky) ==
  IF c > 0 \/ (c = 0 /\ (sticky \/ BigOdd(q))) THEN BigAdd(q, <<1>>) ELSE q

BigRoundFrom(a, s, sticky, q) ==
  BigTie(q, BigCmp(BigSub(a, BigShl(q, s)), BigShl(<<1>>, s - 1)), sticky)

\* a / 2^s rounded to the nearest natural, ties to even, s >= 1
BigRoundShr(a, s, sticky) == BigRoundFrom(a, s, sticky, BigShr(a, s))

\* The largest g <= guess with g * d <= n
RECURSIVE BigDigitFix(_, _, _)
BigDigitFix(n, d, guess) ==
  IF BigCmp(BigMulSmall(d, guess), n) > 0 THEN BigDigitFix(n, d, guess - 1) ELSE guess

BigDigitFrom(n, d, est) == BigDigitFix(n, d, IF est >= Base THEN Base - 1 ELSE est)

BigDigitAt(n, d, sh) ==
  BigDigitFrom(n, d, BigToInt(BigShr(n, sh)) \div BigToInt(BigShr(d, sh)))

\* One digit of schoolbook long division: floor(n / d) for n < d * Base and
\* d of at least LimbBits bits, estimated from the leading bits of n and d
\* (an estimate that is never too small) and then corrected downwards.
BigDigit(n, d) == BigDigitAt(n, d, BigBitLen(d) - LimbBits)

BigLongDivPut(q, n, d, g) ==
  [q |-> BigNorm(<<g>> \o q), r |-> BigSub(n, BigMulSmall(d, g))]

BigLongDivDigit(q, n, d) == BigLongDivPut(q, n, d, BigDigit(n, d))

BigLongDivStep(prev, d) == BigLongDivDigit(prev.q, BigShiftLimbs(prev.r, 1), d)

\* Long division of r0 * Base^steps by d, for r0 < d, one limb of the quotient
\* per step: the quotient and the remainder.
RECURSIVE BigLongDiv(_, _, _)
BigLongDiv(r0, d, steps) ==
  IF steps = 0 THEN [q |-> <<>>, r |-> r0]
  ELSE BigLongDivStep(BigLongDiv(r0, d, steps - 1), d)

(***************************************************************************)
(* Python float: binary64, round to nearest, ties to even.                 *)
(* A value is sg * m * 2^e with m = <<>> (zero) or 2^52 <= m < 2^53.       *)
(***************************************************************************)
MantBits == 53

FZero == [sg |-> 1, m |-> <<>>, e |-> 0]

IsZero(x) == x.m = <<>>

Max(a, b) == IF a > b THEN a ELSE b
Min(a, b) == IF a < b THEN a ELSE b

\* q of MantBits bits, or of one bit more after a carry out of the rounding
FPack(sg, q, e) ==
  IF BigBitLen(q) > MantBits THEN [sg |-> sg, m |-> BigShr(q, 1), e |-> e + 1]
  ELSE [sg |-> sg, m |-> q, e |-> e]

FRoundBits(sg, M, e, sticky, n) ==
  IF n <= MantBits
  THEN [sg |-> sg, m |-> BigShl(M, MantBits - n), e |-> e - (MantBits - n)]
  ELSE FPack(sg, BigRoundShr(M, n - MantBits, sticky), e + (n - MantBits))

\* The float nearest to sg * (M + f) * 2^e, where the fraction f is 0 unless
\* sticky, and then 0 < f < 1; sticky only with more than MantBits bits in M.
FRound(sg, M, e, sticky) ==
  IF M = <<>> THEN FZero ELSE FRoundBits(sg, M, e, sticky, BigBitLen(M))

\* float(n) for an int n of magnitude below 2^31
FromInt(n) == FRound(IF n < 0 THEN -1 ELSE 1, BigFromInt(IF n < 0 THEN -n ELSE n), 0, FALSE)

FNeg(x) == IF IsZero(x) THEN x ELSE [x EXCEPT !.sg = -x.sg]

\* -1, 0, 1 as |x| < |y|, |x| = |y|, |x| > |y|
FCmpAbs(x, y) ==
  IF IsZero(x) THEN (IF IsZero(y) THEN 0 ELSE -1)
  ELSE IF IsZero(y) THEN 1
  ELSE IF x.e > y.e THEN 1
  ELSE IF x.e < y.e THEN -1
  ELSE BigCmp(x.m, y.m)

FSign(x) == IF IsZero(x) THEN 0 ELSE x.sg

\* -1, 0, 1 as x < y, x = y, x > y
FCmp(x, y) ==
  IF FSign(x) # FSign(y) THEN (IF FSign(x) > FSign(y) THEN 1 ELSE -1)
  ELSE IF FSign(x) = 0 THEN 0
  ELSE FSign(x) * FCmpAbs(x, y)

FGt(x, y) == FCmp(x, y) > 0
FLe(x, y) == FCmp(x, y) <= 0
FEq(x, y) == FCmp(x, y) = 0

\* sx * X * 2^e + sy * Y * 2^e for X # Y or sx = sy; c compares X with Y
FAddMag(sx, X, sy, Y, e, c) ==
  FRound(IF c >= 0 THEN sx ELSE sy,
         IF sx = sy THEN BigAdd(X, Y) ELSE IF c > 0 THEN BigSub(X, Y) ELSE BigSub(Y, X),
         e, FALSE)

FAddAligned(sx, X, sy, Y, e) ==
  IF sx # sy /\ X = Y THEN FZero ELSE FAddMag(sx, X, sy, Y, e, BigCmp(X, Y))

FAddAt(x, y, e) == FAddAligned(x.sg, BigShl(x.m, x.e - e), y.sg, BigShl(y.m, y.e - e), e)

\* x + y
FAdd(x, y) ==
  IF IsZero(x) THEN y
  ELSE IF IsZero(y) THEN x
  ELSE FAddAt(x, y, Min(x.e, y.e))

FSub(x, y) == FAdd(x, FNeg(y))

\* x * y
FMul(x, y) ==
  IF IsZero(x) \/ IsZero(y) THEN FZero
  ELSE FRound(x.sg * y.sg, BigMul(x.m, y.m), x.e + y.e, FALSE)

FDivRound(sg, d, e) == FRound(sg, d.q, e, d.r # <<>>)

\* x / y for y # 0 (Python raises ZeroDivisionError for y = 0)
FDiv(x, y) ==
  IF IsZero(x) THEN FZero
  ELSE FDivRound(x.sg * y.sg, BigLongDiv(x.m, BigMulSmall(y.m, 2), 4),
                 x.e - y.e - (4 * LimbBits - 1))

FDivIntRound(sg, d, e) == FRound(sg, d.q, e, d.r # 0)

FDivIntAt(x, n, s) == FDivIntRound(x.sg, BigDivSmall(BigShl(x.m, s), n), x.e - s)

\* x / n for an int 1 <= n <= 2^15: the same value as FDiv(x, FromInt(n))
FDivInt(x, n) == IF IsZero(x) THEN FZero ELSE FDivIntAt(x, n, BitLenSmall(n) + 3)

\* float("<n>e-<d>"): the float nearest to the decimal n / 10^d, 0 <= d <= 4
ParseFloat(n, d) == FDivInt(FromInt(n), 10 ^ d)

\* |x| * 10^nd as A * 2^e, rounded half-even to a natural
PyRoundNat(A, e) == IF e >= 0 THEN BigShl(A, e) ELSE BigRoundShr(A, -e, FALSE)

\* round(x, nd) for 0 <= nd <= 4 and |x| * 10^nd < 2^53: the exact value
\* rounded half-even to nd decimals, then the float nearest to that decimal
PyRound(x, nd) ==
  IF IsZero(x) THEN x
  ELSE FDivInt(FRound(x.sg, PyRoundNat(BigMulSmall(x.m, 10 ^ nd), x.e), 0, FALSE), 10 ^ nd)

(***************************************************************************)
(* The indicator functions.  A call either returns a series or raises:     *)
(* Raise("ZeroDivisionError") is what a period of 0 produces.              *)
(* Periods are ints >= 0 here; series are 1-based, so Python's ema[i] is   *)
(* ema[i + 1] and Python's x[-1], x[-2] are x[Len(x)], x[Len(x) - 1].      *)
(***************************************************************************)
Raise(exc) == [raised |-> TRUE, exc |-> exc, val |-> <<>>]
Returned(v) == [raised |-> FALSE, exc |-> "", val |-> v]

F1 == FromInt(1)
F2 == FromInt(2)
F100 == FromInt(100)

\* The loop of sum(): st.total is the sum of the first st.i items
RECURSIVE SumLoop(_, _, _)
SumLoop(xs, n, st) ==
  IF st.i = n THEN st.total
  ELSE SumLoop(xs, n, [i |-> st.i + 1, total |-> FAdd(st.total, xs[st.i + 1])])

\* sum(xs[:n]): Python starts from the int 0 and adds from the left
PySum(xs, n) == SumLoop(xs, n, [i |-> 0, total |-> FZero])

\* k = 2 / (period + 1)
EmaK(period) == FDivInt(F2, period + 1)

\* ema[period - 1] = sum(prices[:period]) / period
EmaSeed(prices, period) == FDivInt(PySum(prices, period), period)

\* A recurrence whose weights do not add up to 1: prices[i] * k + ema[i - 1] * k
EmaStepNoDecay(price, prev, k) == FAdd(FMul(price, k), FMul(prev, k))

\* prices[i] * k + ema[i - 1] * (1 - k)
EmaStep(price, prev, k) == FAdd(FMul(price, k), FMul(prev, FSub(F1, k)))

\* The for loop of calculate_ema, from the list `ema` filled up to index
\* Len(ema) - 1 to the list filled up to the last price
RECURSIVE EmaLoop(_, _, _)
EmaLoop(prices, k, ema) ==
  IF Len(ema) = Len(prices) THEN ema
  ELSE EmaLoop(prices, k, Append(ema, EmaStep(prices[Len(ema) + 1], ema[Len(ema)], k)))

\* calculate_ema with the guard len(prices) <= period: a series of exactly
\* `period` prices comes back empty
calculate_ema_strict(prices, period) ==
  IF Len(prices) <= period THEN Returned(<<>>)
  ELSE IF period = 0 THEN Raise("ZeroDivisionError")
  ELSE Returned(EmaLoop(prices, EmaK(period),
                        Repeat(FZero, period - 1) \o <<EmaSeed(prices, period)>>))

calculate_ema(prices, period) ==
  IF Len(prices) < period THEN Returned(<<>>)
  ELSE IF period = 0 THEN Raise("ZeroDivisionError")
  ELSE Returned(EmaLoop(prices, EmaK(period),
                        Repeat(FZero, period - 1) \o <<EmaSeed(prices, period)>>))

\* max(c, 0) and max(-c, 0)
Gain(c) == IF FGt(c, FZero) THEN c ELSE FZero
Loss(c) == Gain(FNeg(c))

Changes(prices) == [i \in 1..(Len(prices) - 1) |-> FSub(prices[i + 1], prices[i])]
Gains(changes) == [i \in 1..Len(changes) |-> Gain(changes[i])]
Losses(changes) == [i \in 1..Len(changes) |-> Loss(changes[i])]

\* sum(xs[:period]) / period
FirstAvg(xs, period) == FDivInt(PySum(xs, period), period)

\* The running average at Python's index i - 1: unchanged while i - 1 < period,
\* then (avg * (period - 1) + x) / period
NextAvg(avg, x, period, i) ==
  IF i <= period THEN avg
  ELSE FDivInt(FAdd(FMul(avg, FromInt(period - 1)), x), period)

\* rs and rsi_val of calculate_rsi for the averages at hand
RsOf(avg_gain, avg_loss) == IF ~IsZero(avg_loss) THEN FDiv(avg_gain, avg_loss) ELSE FZero
\* rsi_val without the rs != 0 branch: 100 - 100 / (1 + rs) throughout
RsiValPlain(rs) == FSub(F100, FDiv(F100, FAdd(F1, rs)))
RsiVal(rs) == IF ~IsZero(rs) THEN FSub(F100, FDiv(F100, FAdd(F1, rs))) ELSE F100

RsiAppend(rsi, avg_gain, avg_loss) ==
  [rsi |-> Append(rsi, RsiVal(RsOf(avg_gain, avg_loss))),
   avg_gain |-> avg_gain, avg_loss |-> avg_loss]

\* One iteration of the for loop of calculate_rsi
RsiIter(gains, losses, period, st, i) ==
  RsiAppend(st.rsi, NextAvg(st.avg_gain, gains[i], period, i),
            NextAvg(st.avg_loss, losses[i], period, i))

\* The for loop of calculate_rsi, from its state st after Len(st.rsi)
\* iterations (the list rsi and the running averages) to its final state
RECURSIVE RsiLoop(_, _, _, _)
RsiLoop(gains, losses, period, st) ==
  IF Len(st.rsi) = Len(gains) THEN st
  ELSE RsiLoop(gains, losses, period, RsiIter(gains, losses, period, st, Len(st.rsi) + 1))

RsiOfMoves(gains, losses, period) ==
  RsiLoop(gains, losses, period,
          [rsi |-> <<>>, avg_gain |-> FirstAvg(gains, period),
           avg_loss |-> FirstAvg(losses, period)]).rsi

RsiOfChanges(changes, period) == RsiOfMoves(Gains(changes), Losses(changes), period)

calculate_rsi(prices, period) ==
  IF Len(prices) <= period THEN Returned(<<>>)
  ELSE IF period = 0 THEN Raise("ZeroDivisionError")
  ELSE Returned(RsiOfChanges(Changes(prices), period))

(***************************************************************************)
(* The request: queryStringParameters, each key absent, an integer         *)
(* literal, or some other text.                                            *)
(***************************************************************************)
Absent == [kind |-> "absent"]
Num(n) == [kind |-> "int", n |-> n]
Str(t) == [kind |-> "str", text |-> t]

DefaultEmaShort == 9
DefaultEmaLong == 26
DefaultRsiPeriod == 14

\* int(query.get(key, default))
IntParam(raw, default) ==
  IF raw.kind = "absent" THEN Returned(default)
  ELSE IF raw.kind = "int" THEN Returned(raw.n)
  ELSE Raise("ValueError")

\* query.get(key, default)
StrParam(raw, default) == IF raw.kind = "absent" THEN default ELSE raw.text

Query(ex, s, l, r) == [exchange |-> ex, emaShort |-> s, emaLong |-> l, rsiPeriod |-> r]

Queries ==
  { Query(Str("binance"), Num(1), Num(2), Num(1)),
    Query(Str("bybit"), Num(2), Num(3), Num(1)),
    Query(Absent, Num(1), Num(4), Num(1)),
    Query(Absent, Num(1), Num(2), Num(13)),
    Query(Absent, Num(0), Num(2), Num(1)),
    Query(Absent, Num(1), Num(2), Num(0)),
    Query(Str("okx"), Num(1), Num(2), Num(1)),
    Query(Absent, Absent, Absent, Absent),
    Query(Absent, Num(2), Num(2), Num(1)),
    Query(Str("bybit"), Num(3), Num(2), Num(1)),
    Query(Absent, Num(30), Num(10), Absent),
    Query(Absent, Str("fast"), Num(2), Num(1)),
    Query(Absent, Num(3), Num(2), Str("x")) }

(***************************************************************************)
(* The exchanges: what the symbol and candle endpoints answer.  Closes are *)
(* decimal strings of two places, written as a count of hundredths;        *)
(* a close of -1 stands for text that float() rejects.                     *)
(***************************************************************************)
SeriesLen == 13

UpTicks == [i \in 1..SeriesLen |-> IF i < SeriesLen THEN 10000 - 13 * i ELSE 10513]
EqTicks == [i \in 1..SeriesLen |-> IF i < SeriesLen THEN 10000 ELSE 10100]
HiTicks == [i \in 1..SeriesLen |-> 9000 + 17 * i]
LoTicks == [i \in 1..SeriesLen |-> 11000 - 19 * i]

\* The candle endpoint's answer for a symbol: the HTTP status, the API's
\* retCode (Bybit), and the closes of the candles
Candles(symbol) ==
  CASE symbol = "UPUSDT"  -> [http |-> 200, retCode |-> 0, closes |-> UpTicks]
    [] symbol = "EQUSDT"  -> [http |-> 200, retCode |-> 0, closes |-> EqTicks]
    [] symbol = "HIUSDT"  -> [http |-> 200, retCode |-> 0, closes |-> HiTicks]
    [] symbol = "LOUSDT"  -> [http |-> 200, retCode |-> 0, closes |-> LoTicks]
    [] symbol = "NEWUSDT" -> [http |-> 200, retCode |-> 0, closes |-> <<10000, 10050>>]
    [] symbol = "BADUSDT" -> [http |-> 200, retCode |-> 0, closes |-> <<10000, -1>>]
    [] symbol = "OLDUSDT" -> [http |-> 200, retCode |-> 10001, closes |-> <<>>]
    [] OTHER              -> [http |-> 503, retCode |-> 0, closes |-> <<>>]

FetchLimit == 100

\* the last n items of xs
LastN(xs, n) == IF Len(xs) <= n THEN xs ELSE SubSeq(xs, Len(xs) - n + 1, Len(xs))

\* [float(k[4]) for k in klines]
ParseCloses(ticks) ==
  IF \E i \in 1..Len(ticks) : ticks[i] < 0 THEN Raise("ValueError")
  ELSE Returned([i \in 1..Len(ticks) |-> ParseFloat(ticks[i], 2)])

Answer(exchange, resp, limit) ==
  IF exchange = "binance"
  THEN IF resp.http # 200 THEN Raise("HTTPError")
       ELSE ParseCloses(LastN(resp.closes, limit))
  ELSE IF exchange = "bybit"
  THEN IF resp.http # 200 THEN Raise("HTTPError")
       ELSE IF resp.retCode # 0 THEN Returned(<<>>)
       ELSE ParseCloses(LastN(resp.closes, limit))
  ELSE Returned(<<>>)

fetch_klines(exchange, symbol, limit) == Answer(exchange, Candles(symbol), limit)

Limit == 50
MaxShort == 2
MaxOver == 2

ShortNames == {"UPUSDT", "HIUSDT", "NEWUSDT", "ERRUSDT"}

\* A long symbol list: crossing symbols first, at the limit and beyond it
LongList(n) ==
  [i \in 1..n |->
     IF i = 1 THEN "EQUSDT"
     ELSE IF i = 2 THEN "LOUSDT"
     ELSE IF i = 3 THEN "BADUSDT"
     ELSE IF i >= Limit THEN "UPUSDT"
     ELSE IF i % 3 = 0 THEN "ERRUSDT"
     ELSE IF i % 3 = 1 THEN "OLDUSDT"
     ELSE "NEWUSDT"]

\* What get_binance_symbols / get_bybit_symbols can return
SymbolLists ==
  UNION {[1..n -> ShortNames] : n \in 0..MaxShort}
  \cup {LongList(n) : n \in (Limit - 1)..(Limit + MaxOver)}

(***************************************************************************)
(* handler(event, context)                                                 *)
(***************************************************************************)
VARIABLES
  pc,          \* where the handler is: start, get_symbols, loop, lookback, detect, done;
               \* call, returned for a direct call of an indicator function
  query,       \* event['queryStringParameters']
  exchange, timeframe, ema_short, ema_long, rsi_period,
  symbols, signals,
  idx,         \* iterations of the for loop begun and left
  closes, ema_s, ema_l, rsi_vals,
  response,    \* what the handler returned
  trace,       \* the calls made to the symbol source, the candle source and the indicators
  t_fn, t_prices, t_period, t_out   \* a direct call of an indicator function

handler_vars ==
  <<pc, query, exchange, timeframe, ema_short, ema_long, rsi_period, symbols,
    signals, idx, closes, ema_s, ema_l, rsi_vals, response, trace>>
call_vars == <<t_fn, t_prices, t_period, t_out>>
vars == <<handler_vars, call_vars>>

None == [none |-> TRUE]
NoResponse == [statusCode |-> 0, body |-> None]
Margin == 10

\* A validation that lets equal periods through
ValidOrEqual(short, long) == short <= long

\* ema_short >= ema_long is rejected
Valid(short, long) == short < long

\* A scan of the whole list
ScannedUncapped(syms) == syms

\* symbols[:50]
Scanned(syms) == SubSeq(syms, 1, Min(Len(syms), Limit))

\* Lookback guards without the margin, and without the RSI period
RequiredLenNoMargin(long, rsi) == Max(long, rsi)
RequiredLenEmaOnly(long, rsi) == long + Margin

\* len(closes) < max(ema_long, rsi_period) + 10 is skipped
RequiredLen(long, rsi) == Max(long, rsi) + Margin

\* A crossover test that looks at the last bar only
AnyCross(s, l) == FGt(s[Len(s)], l[Len(l)])

\* ema_s[-1] > ema_l[-1] and ema_s[-2] <= ema_l[-2]
FreshCross(s, l) ==
  /\ FGt(s[Len(s)], l[Len(l)])
  /\ FLe(s[Len(s) - 1], l[Len(l) - 1])

\* except ValueError: a handler that lets the other exceptions through
CatchesValueError(exc) == exc = "ValueError"

\* except Exception: every exception class met here derives from Exception
PerSymbolCatches(exc) == exc \in {"HTTPError", "ValueError", "ZeroDivisionError"}

\* break: the loop ends at the first skipped symbol
AfterSkipBreaks(i, n) == n

\* continue: the loop goes on with the next symbol
AfterSkip(i, n) == i + 1

Signal(symbol, cl, s, l, r, tf) ==
  [symbol    |-> symbol,
   price     |-> cl[Len(cl)],
   emaShort  |-> PyRound(s[Len(s)], 4),
   emaLong   |-> PyRound(l[Len(l)], 4),
   rsi       |-> IF r # <<>> THEN PyRound(r[Len(r)], 2) ELSE None,
   timeframe |-> tf]

Called(fn, arg) == [fn |-> fn, arg |-> arg]

Idle ==
  /\ exchange = "" /\ timeframe = "" /\ ema_short = 0 /\ ema_long = 0 /\ rsi_period = 0
  /\ symbols = <<>> /\ signals = <<>> /\ idx = 0
  /\ closes = <<>> /\ ema_s = <<>> /\ ema_l = <<>> /\ rsi_vals = <<>>
  /\ response = NoResponse /\ trace = <<>>

NoCall == t_fn = "" /\ t_prices = <<>> /\ t_period = 0 /\ t_out = None

Init ==
  /\ pc = "start"
  /\ query \in Queries
  /\ Idle
  /\ NoCall

\* The outer except: return statusCode 500 with str(e)
Fail(exc) ==
  /\ response' = [statusCode |-> 500, body |-> [error |-> exc]]
  /\ pc' = "done"

\* The inner except: the symbol is skipped, or the exception goes on to the
\* outer handler when the clause does not catch it
SkipOrFail(exc) ==
  IF PerSymbolCatches(exc)
  THEN /\ idx' = AfterSkip(idx, Len(Scanned(symbols)))
       /\ pc' = "loop"
       /\ UNCHANGED response
  ELSE /\ Fail(exc)
       /\ UNCHANGED idx

\* Lines 83-96: the parameters and the validation
Validate ==
  /\ pc = "start"
  /\ LET s == IntParam(query.emaShort, DefaultEmaShort)
         l == IntParam(query.emaLong, DefaultEmaLong)
         r == IntParam(query.rsiPeriod, DefaultRsiPeriod)
     IN  /\ exchange' = StrParam(query.exchange, "binance")
         /\ timeframe' = "1m"
         /\ IF s.raised \/ l.raised \/ r.raised
            THEN /\ Fail("ValueError")
                 /\ UNCHANGED <<ema_short, ema_long, rsi_period>>
            ELSE /\ ema_short' = s.val
                 /\ ema_long' = l.val
                 /\ rsi_period' = r.val
                 /\ IF Valid(s.val, l.val)
                    THEN /\ pc' = "get_symbols"
                         /\ UNCHANGED response
                    ELSE /\ response' = [statusCode |-> 400,
                                         body |-> [error |-> "EMA Short must be < EMA Long"]]
                         /\ pc' = "done"
  /\ UNCHANGED <<query, symbols, signals, idx, closes, ema_s, ema_l, rsi_vals, trace>>
  /\ UNCHANGED call_vars

\* Lines 99-100: the symbol list, from Binance for 'binance' and from Bybit
\* for anything else; the source answers with a list or raises
GetSymbols ==
  /\ pc = "get_symbols"
  /\ trace' = Append(trace, Called(IF exchange = "binance" THEN "get_binance_symbols"
                                                          ELSE "get_bybit_symbols", ""))
  /\ \/ /\ Fail("HTTPError")
        /\ UNCHANGED <<symbols, signals>>
     \/ /\ symbols' \in SymbolLists
        /\ signals' = <<>>
        /\ pc' = "loop"
        /\ UNCHANGED response
  /\ UNCHANGED <<query, exchange, timeframe, ema_short, ema_long, rsi_period, idx,
                 closes, ema_s, ema_l, rsi_vals>>
  /\ UNCHANGED call_vars

\* Line 104 done: the candles came back as `got`, or the call raised
Fetched(symbol, got) ==
  /\ trace' = Append(trace, Called("fetch_klines", symbol))
  /\ IF got.raised
     THEN /\ SkipOrFail(got.exc)
          /\ UNCHANGED closes
     ELSE /\ closes' = got.val
          /\ pc' = "lookback"
          /\ UNCHANGED <<idx, response>>

\* Line 104: the next symbol of symbols[:50] and its candles
Fetch ==
  /\ pc = "loop"
  /\ idx < Len(Scanned(symbols))
  /\ Fetched(Scanned(symbols)[idx + 1],
             fetch_klines(exchange, Scanned(symbols)[idx + 1], FetchLimit))
  /\ UNCHANGED <<query, exchange, timeframe, ema_short, ema_long, rsi_period, symbols,
                 signals, ema_s, ema_l, rsi_vals>>
  /\ UNCHANGED call_vars

\* Lines 108-110: the three calls in their order; a call that raises ends the
\* iteration, and the later calls are not made
Indicators(s, l, r) ==
  IF s.raised
  THEN /\ trace' = Append(trace, Called("calculate_ema", ema_short))
       /\ SkipOrFail(s.exc)
       /\ UNCHANGED <<ema_s, ema_l, rsi_vals>>
  ELSE IF l.raised
  THEN /\ trace' = trace \o <<Called("calculate_ema", ema_short),
                              Called("calculate_ema", ema_long)>>
       /\ SkipOrFail(l.exc)
       /\ ema_s' = s.val
       /\ UNCHANGED <<ema_l, rsi_vals>>
  ELSE /\ trace' = trace \o <<Called("calculate_ema", ema_short),
                              Called("calculate_ema", ema_long),
                              Called("calculate_rsi", rsi_period)>>
       /\ ema_s' = s.val
       /\ ema_l' = l.val
       /\ IF r.raised
          THEN /\ SkipOrFail(r.exc)
               /\ UNCHANGED rsi_vals
          ELSE /\ rsi_vals' = r.val
               /\ pc' = "detect"
               /\ UNCHANGED <<idx, response>>

\* Lines 105-110: the lookback guard and the three indicators
Compute ==
  /\ pc = "lookback"
  /\ IF Len(closes) < RequiredLen(ema_long, rsi_period)
     THEN /\ idx' = idx + 1
          /\ pc' = "loop"
          /\ UNCHANGED <<ema_s, ema_l, rsi_vals, response, trace>>
     ELSE Indicators(calculate_ema(closes, ema_short), calculate_ema(closes, ema_long),
                     calculate_rsi(closes, rsi_period))
  /\ UNCHANGED <<query, exchange, timeframe, ema_short, ema_long, rsi_period, symbols,
                 signals, closes>>
  /\ UNCHANGED call_vars

\* Lines 112-124: the length guard, the crossover test and the signal
Detect ==
  /\ pc = "detect"
  /\ signals' =
       IF Len(ema_s) < 2 \/ Len(ema_l) < 2 THEN signals
       ELSE IF FreshCross(ema_s, ema_l)
       THEN Append(signals, Signal(Scanned(symbols)[idx + 1], closes, ema_s, ema_l,
                                   rsi_vals, timeframe))
       ELSE signals
  /\ idx' = idx + 1
  /\ pc' = "loop"
  /\ UNCHANGED <<query, exchange, timeframe, ema_short, ema_long, rsi_period, symbols,
                 closes, ema_s, ema_l, rsi_vals, response, trace>>
  /\ UNCHANGED call_vars

\* Lines 128-139: the loop is over
Respond ==
  /\ pc = "loop"
  /\ idx >= Len(Scanned(symbols))
  /\ response' = [statusCode |-> 200,
                  body |-> [signals |-> signals, count |-> Len(signals),
                            timestamp |-> "utcnow"]]
  /\ pc' = "done"
  /\ UNCHANGED <<query, exchange, timeframe, ema_short, ema_long, rsi_period, symbols,
                 signals, idx, closes, ema_s, ema_l, rsi_vals, trace>>
  /\ UNCHANGED call_vars

Next == Validate \/ GetSymbols \/ Fetch \/ Compute \/ Detect \/ Respond

Spec == Init /\ [][Next]_vars

Pcs == {"start", "get_symbols", "loop", "lookback", "detect", "done"}

\* The handler runs on until it returns: no step of it waits for anything
\* but an answer or a timeout of the HTTP call it made.  Every step of Next
\* changes pc or idx, and Next has a step wherever pc is not "done", so weak
\* fairness of Next is weak fairness of a change of <<pc, idx>> before the
\* return, whose enabledness is read off pc alone.
Running == pc # "done" /\ pc' \in Pcs /\ idx' \in 0..Limit

FairSpec == Spec /\ WF_<<pc, idx>>(Running)

(***************************************************************************)
(* calculate_ema and calculate_rsi called directly, on close series given  *)
(* in hundredths                                                           *)
(***************************************************************************)
MaxPeriod == 7
MaxEmaLen == 8
MaxRsiLen == 8

Prices(ticks) == [i \in 1..Len(ticks) |-> ParseFloat(ticks[i], 2)]

Constant(v, n) == [i \in 1..n |-> v]

\* 0.10, 1.00, 12345.67
ConstTicks == {10, 100, 1234567}

WavyTicks == [i \in 1..(MaxEmaLen + MaxRsiLen) |-> 10000 + 37 * i - 11 * ((i * i) % 7)]

EmaTicks ==
  {Constant(v, n) : v \in ConstTicks, n \in 0..MaxEmaLen}
  \cup {SubSeq(WavyTicks, 1, n) : n \in 1..MaxEmaLen}

\* strictly increasing for dir = 1 and strictly decreasing for dir = -1
Ramp(start, step, dir, n) == [i \in 1..n |-> start + dir * (step * i + ((i * i) % 5))]

RampSteps == {5, 17, 333}

RsiTicks ==
  {Ramp(10000, step, dir, n) : step \in RampSteps, dir \in {-1, 1}, n \in 2..MaxRsiLen}
  \cup {SubSeq(WavyTicks, 1, n) : n \in 2..MaxRsiLen}

NoQuery == Query(Absent, Absent, Absent, Absent)

InitCall(fn, series) ==
  /\ pc = "call"
  /\ query = NoQuery
  /\ Idle
  /\ t_fn = fn
  /\ \E ticks \in series : t_prices = Prices(ticks)
  /\ t_period \in 0..MaxPeriod
  /\ t_out = None

Return(out) ==
  /\ pc = "call"
  /\ t_out' = out
  /\ pc' = "returned"
  /\ UNCHANGED <<t_fn, t_prices, t_period>>
  /\ UNCHANGED <<query, exchange, timeframe, ema_short, ema_long, rsi_period, symbols,
                 signals, idx, closes, ema_s, ema_l, rsi_vals, response, trace>>

InitEma == InitCall("calculate_ema", EmaTicks)

CallEma == t_fn = "calculate_ema" /\ Return(calculate_ema(t_prices, t_period))

SpecEma == InitEma /\ [][CallEma]_vars

InitRsi == InitCall("calculate_rsi", RsiTicks)

CallRsi == t_fn = "calculate_rsi" /\ Return(calculate_rsi(t_prices, t_period))

SpecRsi == InitRsi /\ [][CallRsi]_vars

(***************************************************************************)
(* Properties of the indicator functions                                   *)
(***************************************************************************)
EmaReturned == pc = "returned" /\ t_fn = "calculate_ema"
RsiReturned == pc = "returned" /\ t_fn = "calculate_rsi"

IsConstant(xs) == \A i \in 1..Len(xs) : xs[i] = xs[1]
StrictlyIncreasing(xs) == \A i \in 1..(Len(xs) - 1) : FGt(xs[i + 1], xs[i])
StrictlyDecreasing(xs) == \A i \in 1..(Len(xs) - 1) : FGt(xs[i], xs[i + 1])

\* |x - v| <= n * 2^-(MantBits - 1) * |v|, decided exactly
Near(x, v, n) ==
  IF IsZero(x) \/ IsZero(v) THEN IsZero(x) /\ IsZero(v)
  ELSE LET e == Min(x.e, v.e)
           X == BigShl(x.m, x.e - e)
           V == BigShl(v.m, v.e - e)
           D == IF BigCmp(X, V) >= 0 THEN BigSub(X, V) ELSE BigSub(V, X)
       IN  x.sg = v.sg /\ BigCmp(BigShl(D, MantBits - 1), BigMulSmall(V, n)) <= 0

\* C6: for a period P >= 1 and a strictly increasing or strictly decreasing
\* series of more than P prices, calculate_rsi returns len - 1 values and
\* every one of them, in the seed window and after it, equals 100.
RsiMonotoneIs100 ==
  (/\ RsiReturned
   /\ t_period >= 1
   /\ Len(t_prices) > t_period
   /\ StrictlyIncreasing(t_prices) \/ StrictlyDecreasing(t_prices))
  => /\ ~t_out.raised
     /\ Len(t_out.val) = Len(t_prices) - 1
     /\ \A i \in 1..Len(t_out.val) : FEq(t_out.val[i], F100)

\* A strictly decreasing series long enough to leave the seed window
RsiDecreasingWitness ==
  /\ RsiReturned
  /\ t_period = 2
  /\ Len(t_prices) = MaxRsiLen
  /\ StrictlyDecreasing(t_prices)
  /\ Len(t_out.val) = MaxRsiLen - 1
  /\ FEq(t_out.val[MaxRsiLen - 1], F100)

ConstantCase == EmaReturned /\ t_period >= 1 /\ Len(t_prices) >= t_period /\ IsConstant(t_prices)

\* C7 as stated: on a constant series of value V every valid entry of
\* calculate_ema (the seed and every recurrence step) equals V, and the
\* period - 1 leading entries are 0.
EmaFixedPointExact ==
  ConstantCase
  => /\ ~t_out.raised
     /\ \A i \in 1..Len(t_out.val) :
          t_out.val[i] = IF i < t_period THEN FZero ELSE t_prices[1]

\* C7, amended: on a constant series of value V the period - 1 leading
\* entries of calculate_ema are 0 and every valid entry equals V up to
\* floating-point rounding, within (period + 1) * 2^-52 * |V| of V; the
\* entries are V itself for period 1.
EmaFixedPointRounded ==
  ConstantCase
  => /\ ~t_out.raised
     /\ Len(t_out.val) = Len(t_prices)
     /\ \A i \in 1..Len(t_out.val) :
          IF i < t_period THEN t_out.val[i] = FZero
          ELSE /\ Near(t_out.val[i], t_prices[1], t_period + 1)
               /\ t_period = 1 => t_out.val[i] = t_prices[1]

\* A constant series on which a recurrence step leaves V by a rounding error
EmaRoundingWitness ==
  /\ ConstantCase
  /\ t_period = 2
  /\ Len(t_prices) = 3
  /\ t_out.val[1] = FZero
  /\ t_out.val[2] = t_prices[1]
  /\ t_out.val[3] # t_prices[1]
  /\ Near(t_out.val[3], t_prices[1], 1)

\* C8: for a period P >= 1, calculate_ema raises nothing, returns the empty
\* series exactly when there are fewer than P prices, and otherwise a
\* series as long as the prices whose P - 1 leading entries are the
\* sentinel 0 and whose entry at index P - 1 is the mean of the first P.
EmaOutputLength ==
  (EmaReturned /\ t_period >= 1)
  => /\ ~t_out.raised
     /\ t_out.val = <<>> <=> Len(t_prices) < t_period
     /\ Len(t_prices) >= t_period
        => /\ Len(t_out.val) = Len(t_prices)
           /\ \A i \in 1..(t_period - 1) : t_out.val[i] = FZero
           /\ t_out.val[t_period] = FDiv(PySum(t_prices, t_period), FromInt(t_period))

\* As many prices as the period: only the seed is valid
EmaSeedOnlyWitness ==
  /\ EmaReturned
  /\ t_period = 3
  /\ Len(t_prices) = 3
  /\ ~IsConstant(t_prices)
  /\ Len(t_out.val) = 3
  /\ t_out.val[2] = FZero
  /\ ~IsZero(t_out.val[3])

(***************************************************************************)
(* Properties of the handler                                               *)
(***************************************************************************)
LoopPcs == {"loop", "lookback", "detect"}

\* The request read at lines 86-88 satisfies 1 <= emaShort < emaLong, rsiPeriod >= 1
ValidRequest == ema_short >= 1 /\ ema_short < ema_long /\ rsi_period >= 1

Fetches == SelectSeq(trace, LAMBDA c : c.fn = "fetch_klines")
FetchedNames == [i \in 1..Len(Fetches) |-> Fetches[i].arg]
SignalNames == [i \in 1..Len(signals) |-> signals[i].symbol]

Ok200 ==
  /\ pc = "done"
  /\ response.statusCode = 200
  /\ DOMAIN response.body = {"signals", "count", "timestamp"}

Err500 ==
  /\ pc = "done"
  /\ response.statusCode = 500
  /\ DOMAIN response.body = {"error"}

\* The rule of the claim on a close series: enough lookback, and the short
\* EMA above the long one on the last bar but not on the bar before
CrossRule(cl, short, long, rsi) ==
  /\ Len(cl) >= Max(long, rsi) + 10
  /\ LET s == calculate_ema(cl, short).val
         l == calculate_ema(cl, long).val
     IN  /\ FGt(s[Len(s)], l[Len(l)])
         /\ FLe(s[Len(s) - 1], l[Len(l) - 1])

\* One symbol scanned on its own under the request at hand: whether
\* anything raised, and the signals it reports
OneSymbol(symbol) ==
  LET got == fetch_klines(exchange, symbol, FetchLimit)
  IN  IF got.raised THEN [raised |-> TRUE, signals |-> <<>>]
      ELSE IF Len(got.val) < Max(ema_long, rsi_period) + 10
      THEN [raised |-> FALSE, signals |-> <<>>]
      ELSE LET s == calculate_ema(got.val, ema_short)
               l == calculate_ema(got.val, ema_long)
               r == calculate_rsi(got.val, rsi_period)
           IN  IF s.raised \/ l.raised \/ r.raised
               THEN [raised |-> TRUE, signals |-> <<>>]
               ELSE IF CrossRule(got.val, ema_short, ema_long, rsi_period)
               THEN [raised |-> FALSE,
                     signals |-> <<[symbol    |-> symbol,
                                    price     |-> got.val[Len(got.val)],
                                    emaShort  |-> PyRound(s.val[Len(s.val)], 4),
                                    emaLong   |-> PyRound(l.val[Len(l.val)], 4),
                                    rsi       |-> PyRound(r.val[Len(r.val)], 2),
                                    timeframe |-> timeframe]>>]
               ELSE [raised |-> FALSE, signals |-> <<>>]

RECURSIVE Report(_)
Report(list) ==
  IF list = <<>> THEN <<>> ELSE OneSymbol(Head(list)).signals \o Report(Tail(list))

\* The list without the symbols for which something raises
Survivors(list) == SelectSeq(list, LAMBDA x : ~OneSymbol(x).raised)

\* a is b with some entries left out
RECURSIVE IsSubseq(_, _)
IsSubseq(a, b) ==
  IF a = <<>> THEN TRUE
  ELSE IF b = <<>> THEN FALSE
  ELSE IF Head(a) = Head(b) THEN IsSubseq(Tail(a), Tail(b))
  ELSE IsSubseq(a, Tail(b))

\* A step of the scan loop: never to the failure result, and past a symbol
\* for which something raises with the signals as they were
IsolatedStep ==
  pc \in LoopPcs
  => /\ response'.statusCode # 500
     /\ (idx' = idx + 1 /\ OneSymbol(Scanned(symbols)[idx + 1]).raised)
        => (signals' = signals /\ pc' = "loop")

\* C1: for a request that passed validation and a symbol list that was
\* obtained, no step of the scan loop ends in the failure result, a symbol
\* for which the fetch or an indicator raises adds no signal and the loop goes
\* on with the next symbol, and the signals of the finished scan are those
\* of the scanned list with every such symbol left out.
FailureIsolation ==
  /\ [](Ok200 => /\ signals = Report(Survivors(Scanned(symbols)))
                 /\ idx = Len(Scanned(symbols)))
  /\ [][IsolatedStep]_vars

\* A scan finished with a signal for a symbol that follows a failed one
IsolationWitness ==
  /\ Ok200
  /\ symbols = <<"ERRUSDT", "UPUSDT">>
  /\ OneSymbol("ERRUSDT").raised
  /\ SignalNames = <<"UPUSDT">>

ParsedOk ==
  /\ ~IntParam(query.emaShort, DefaultEmaShort).raised
  /\ ~IntParam(query.emaLong, DefaultEmaLong).raised
  /\ ~IntParam(query.rsiPeriod, DefaultRsiPeriod).raised

AskedShort == IntParam(query.emaShort, DefaultEmaShort).val
AskedLong == IntParam(query.emaLong, DefaultEmaLong).val

\* C2: a request with integer parameters and emaShort >= emaLong goes from
\* the start straight to the 400 result, with no call of the symbol source,
\* of the candle source or of an indicator; a request with emaShort < emaLong
\* never gets the 400 result.
ValidationFirst ==
  ParsedOk
  => IF AskedShort >= AskedLong
     THEN /\ pc \in {"start", "done"}
          /\ trace = <<>>
          /\ pc = "done" => response.statusCode = 400 /\ DOMAIN response.body = {"error"}
     ELSE response.statusCode # 400

\* The request with emaShort = emaLong, rejected
RejectedEqualWitness ==
  /\ pc = "done"
  /\ ParsedOk
  /\ AskedShort = AskedLong
  /\ response.statusCode = 400
  /\ trace = <<>>

\* The iteration for the symbol at idx + 1 ends after its fetch returned a
\* close series: with one more signal, for that symbol, exactly when the
\* rule holds of the series
RuleDecides ==
  (ValidRequest /\ pc \in {"lookback", "detect"} /\ idx' = idx + 1)
  => IF CrossRule(closes, ema_short, ema_long, rsi_period)
     THEN /\ Len(signals') = Len(signals) + 1
          /\ SubSeq(signals', 1, Len(signals)) = signals
          /\ signals'[Len(signals')].symbol = Scanned(symbols)[idx + 1]
     ELSE signals' = signals

\* C3: for a request with 1 <= emaShort < emaLong and rsiPeriod >= 1 and a
\* scanned symbol whose fetch returned a close series, a signal for that
\* symbol is emitted if and only if the series has at least
\* max(emaLong, rsiPeriod) + 10 closes and EMA_short[-1] > EMA_long[-1] and
\* EMA_short[-2] <= EMA_long[-2].
FreshCrossoverRule == [][RuleDecides]_vars

\* Two symbols scanned under emaShort 1, emaLong 2: the short EMA of the
\* first is above the long one on both of the last two bars and it got no
\* signal, the second crossed on the last bar and got one
PersistingCrossWitness ==
  /\ ValidRequest
  /\ pc = "loop"
  /\ symbols = <<"HIUSDT", "UPUSDT">>
  /\ idx = 2
  /\ SignalNames = <<"UPUSDT">>
  /\ FGt(ema_s[Len(ema_s)], ema_l[Len(ema_l)])
  /\ FLe(ema_s[Len(ema_s) - 1], ema_l[Len(ema_l) - 1])
  /\ ~CrossRule(fetch_klines(exchange, "HIUSDT", FetchLimit).val, ema_short, ema_long,
                rsi_period)
  /\ Len(fetch_klines(exchange, "HIUSDT", FetchLimit).val) >= Max(ema_long, rsi_period) + 10

\* C4: at every state of a scan the signals are, in order, signals of
\* symbols among the idx first entries of the symbol list, at most one per
\* entry, the symbols fetched are the first entries of the list and at most
\* 50 of them, and the success result carries the signals and their number
\* as count.
ResultShape ==
  /\ IsSubseq(SignalNames, SubSeq(symbols, 1, idx))
  /\ Len(signals) <= idx
  /\ idx <= Min(Len(symbols), Limit)
  /\ Len(FetchedNames) <= Limit
  /\ FetchedNames = SubSeq(symbols, 1, Len(FetchedNames))
  /\ Len(FetchedNames) = IF pc \in {"lookback", "detect"} THEN idx + 1 ELSE idx
  /\ Ok200 => /\ response.body.signals = signals
              /\ response.body.count = Len(response.body.signals)

\* A finished scan of a list of more than 50 symbols, with signals from the
\* first and from the 50th entry
CappedScanWitness ==
  /\ Ok200
  /\ Len(symbols) > Limit
  /\ Len(FetchedNames) = Limit
  /\ response.body.count >= 2
  /\ SignalNames[1] = symbols[1]
  /\ SignalNames[Len(SignalNames)] = symbols[Limit]

\* The step at line 99: the failure result with nothing fetched, or the list
ListStep ==
  pc = "get_symbols"
  => \/ Err500' /\ Fetches' = <<>> /\ signals' = <<>>
     \/ pc' = "loop" /\ response' = NoResponse

\* How far the loop is: three stages for each symbol
Rank == 3 * idx + (IF pc = "lookback" THEN 1 ELSE IF pc = "detect" THEN 2 ELSE 0)

\* A step of the loop: further on in the loop, or to the success result
LoopStep ==
  pc \in LoopPcs
  => \/ pc' \in LoopPcs /\ response' = NoResponse /\ Rank' > Rank
     \/ Ok200'

\* C5: for a request that passed validation the step that asks for the
\* symbol list either fails, and the handler ends in the 500 result with
\* an error body, no signal and no candle fetched, or obtains the list; from
\* then on every step stays in the loop or ends in the 200 result, the loop
\* runs at most 50 iterations, and the 200 result is reached whichever
\* fetches and computations fail.
FailureByLevel ==
  /\ [][ListStep]_vars
  /\ [][LoopStep]_vars
  /\ [](idx <= Limit /\ Len(Fetches) <= Limit)
  /\ [](Err500 => Fetches = <<>> /\ signals = <<>>)
  /\ (pc \in LoopPcs) ~> Ok200

\* A scan that ended in the success result with every symbol failed
AllFailedWitness ==
  /\ Ok200
  /\ symbols = <<"ERRUSDT", "ERRUSDT">>
  /\ FetchedNames = symbols
  /\ \A i \in 1..Len(symbols) : OneSymbol(symbols[i]).raised
  /\ response.body.count = 0

\* C9: for a request with 1 <= emaShort < emaLong and rsiPeriod >= 1, when
\* the crossover comparison is reached both EMA series are as long as the
\* closes and their last two entries lie at Python indices >= period - 1,
\* so none of the four entries compared is a sentinel.
NoSentinelCompared ==
  (ValidRequest /\ pc = "detect")
  => /\ Len(ema_s) = Len(closes) /\ Len(ema_l) = Len(closes)
     /\ Len(ema_s) >= 2 /\ Len(ema_l) >= 2
     /\ (Len(ema_s) - 2) >= ema_short - 1
     /\ (Len(ema_l) - 2) >= ema_long - 1

\* The comparison reached with a long period of 3 on a series of SeriesLen closes
ComparisonWitness ==
  /\ ValidRequest
  /\ pc = "detect"
  /\ ema_long = 3
  /\ Len(ema_l) = SeriesLen
  /\ ema_l[2] = FZero
  /\ ~IsZero(ema_l[Len(ema_l) - 1])

\* C10: every signal in the accumulated list has an rsi that is not null;
\* for a request with 1 <= emaShort < emaLong and rsiPeriod >= 1 the closes
\* that pass the lookback guard are more than rsiPeriod, and calculate_rsi
\* has returned len(closes) - 1 values when the signal is built.
RsiPopulated ==
  /\ \A i \in 1..Len(signals) : signals[i].rsi # None
  /\ (ValidRequest /\ pc = "detect")
     => /\ Len(closes) > rsi_period
        /\ Len(rsi_vals) = Len(closes) - 1
        /\ rsi_vals # <<>>

\* A signal emitted with its rsi, the last of the RSI values rounded
SignalWithRsiWitness ==
  /\ ValidRequest
  /\ pc = "loop"
  /\ Len(signals) = 1
  /\ idx = 1
  /\ rsi_vals # <<>>
  /\ signals[1].rsi = PyRound(rsi_vals[Len(rsi_vals)], 2)

====
